---- MODULE Spec2Model ----
(***************************************************************************)
(* Model of the astronomical bot: AstroCalculator (src/astro_utils.py) and *)
(* the handlers that call it (src/bot_handlers.py).                        *)
(*                                                                         *)
(* Numbers.  The code computes with Python floats; the model computes the  *)
(* same quantities exactly, in integers:                                   *)
(*   - a Julian day is the pair [jdn, secs]: jdn + secs/86400 days;        *)
(*   - a lunar remainder ordinal % 29.53 is counted in hundredths of a day *)
(*     (29.53 days = 2953 hundredths); the double nearest to 29.53 lies    *)
(*     just above 29.53, so Python's remainder of an ordinal that is an    *)
(*     exact multiple of 29.53 is just below 29.53, not 0 (see fmod100);   *)
(*   - a progress percentage is counted in tenths of a percent.            *)
(***************************************************************************)
EXTENDS Integers, Sequences, FiniteSets, TLC

VARIABLES
    now,               \* the wall clock read by datetime.now()
    data,              \* last result of _get_current_astronomical_data
    ret,               \* last value returned by an operation, or what the callback
                       \* of the update in flight has sent
    scan,              \* day-by-day season scan of one year
    env,               \* what importing each tracked library does
    pc,                \* life cycle of the AstroCalculator object; "error" while an
                       \* exception of a callback is on its way to the error handler
    libraries_loaded,  \* AstroCalculator.libraries_loaded
    pending            \* the update in flight: handed to a callback, not yet answered

vars == <<now, data, ret, scan, env, pc, libraries_loaded, pending>>

-----------------------------------------------------------------------------
(* Bounds of the model *)

MinYear == 1999
JulianYears == 2
LunarYears == 9
ScanYears == 4
ReplyDays == 10
MaxWords == 2

-----------------------------------------------------------------------------
(* The Gregorian calendar of datetime *)

IsLeap(y) == (y % 4 = 0) /\ ((y % 100 # 0) \/ (y % 400 = 0))

DaysInMonth(y, m) ==
    IF m = 2 THEN (IF IsLeap(y) THEN 29 ELSE 28)
    ELSE IF m \in {4, 6, 9, 11} THEN 30 ELSE 31

RECURSIVE DaysBeforeMonth(_, _)
DaysBeforeMonth(y, m) ==
    IF m = 1 THEN 0 ELSE DaysBeforeMonth(y, m - 1) + DaysInMonth(y, m - 1)

DaysBeforeYear(y) ==
    (y - 1) * 365 + ((y - 1) \div 4) - ((y - 1) \div 100) + ((y - 1) \div 400)

\* date.toordinal(): proleptic Gregorian ordinal, 0001-01-01 is day 1
toordinal(t) == DaysBeforeYear(t.year) + DaysBeforeMonth(t.year, t.month) + t.day

\* now.timetuple().tm_yday
tm_yday(t) == DaysBeforeMonth(t.year, t.month) + t.day

RECURSIVE YearOfOrdinal(_, _)
YearOfOrdinal(n, y) ==
    IF n <= DaysBeforeYear(y) THEN YearOfOrdinal(n, y - 1)
    ELSE IF n > DaysBeforeYear(y + 1) THEN YearOfOrdinal(n, y + 1)
    ELSE y

RECURSIVE MonthOfYearDay(_, _, _)
MonthOfYearDay(y, k, m) ==
    IF k > DaysBeforeMonth(y, m) + DaysInMonth(y, m)
    THEN MonthOfYearDay(y, k, m + 1) ELSE m

\* date.fromordinal(n), as the (year, month, day) that strftime('%Y-%m-%d') prints
fromordinal(n) ==
    LET y == YearOfOrdinal(n, MinYear)
        k == n - DaysBeforeYear(y)
        m == MonthOfYearDay(y, k, 1)
    IN  [year |-> y, month |-> m, day |-> k - DaysBeforeMonth(y, m)]

\* seconds since midnight
SecondOfDay(t) == t.hour * 3600 + t.minute * 60 + t.second

\* the times of day the clock is read at, in increasing order
TimesOfDay ==
    << [hour |-> 0,  minute |-> 0,  second |-> 0,  microsecond |-> 0],
       [hour |-> 0,  minute |-> 0,  second |-> 0,  microsecond |-> 500000],
       [hour |-> 0,  minute |-> 0,  second |-> 1,  microsecond |-> 0],
       [hour |-> 0,  minute |-> 59, second |-> 59, microsecond |-> 0],
       [hour |-> 12, minute |-> 0,  second |-> 0,  microsecond |-> 0],
       [hour |-> 23, minute |-> 59, second |-> 59, microsecond |-> 0],
       [hour |-> 23, minute |-> 59, second |-> 59, microsecond |-> 999999] >>

Instant(y, m, d, tod) ==
    [year |-> y, month |-> m, day |-> d, hour |-> tod.hour, minute |-> tod.minute,
     second |-> tod.second, microsecond |-> tod.microsecond]

Midnight(y, m, d) == Instant(y, m, d, TimesOfDay[1])

\* the calendar day after t's
NextDay(t) ==
    IF t.day < DaysInMonth(t.year, t.month)
    THEN [year |-> t.year, month |-> t.month, day |-> t.day + 1]
    ELSE IF t.month < 12 THEN [year |-> t.year, month |-> t.month + 1, day |-> 1]
    ELSE [year |-> t.year + 1, month |-> 1, day |-> 1]

\* t1 is strictly earlier than t2 (datetime.__lt__)
Earlier(t1, t2) ==
    LET d1 == toordinal(t1)
        d2 == toordinal(t2)
        s1 == SecondOfDay(t1)
        s2 == SecondOfDay(t2)
    IN  \/ d1 < d2
        \/ d1 = d2 /\ s1 < s2
        \/ d1 = d2 /\ s1 = s2 /\ t1.microsecond < t2.microsecond

-----------------------------------------------------------------------------
(* AstroCalculator._calculate_julian_day and _get_season *)

\* Python's floor division by a positive divisor
FloorDiv(a, b) == IF a >= 0 THEN a \div b ELSE -((-a + b - 1) \div b)

\* the Julian day number without the 400-year term of the leap rule
calculate_julian_day_no400(date) ==
    LET a == FloorDiv(14 - date.month, 12)
        y == date.year + 4800 - a
        m == date.month + 12 * a - 3
        jdn == date.day + FloorDiv(153 * m + 2, 5) + 365 * y + FloorDiv(y, 4)
               - FloorDiv(y, 100) - 32045
        fraction == date.hour * 3600 + date.minute * 60 + date.second
    IN  [jdn |-> jdn, secs |-> fraction]

calculate_julian_day(date) ==
    LET a == FloorDiv(14 - date.month, 12)
        y == date.year + 4800 - a
        m == date.month + 12 * a - 3
        jdn == date.day + FloorDiv(153 * m + 2, 5) + 365 * y + FloorDiv(y, 4)
               - FloorDiv(y, 100) + FloorDiv(y, 400) - 32045
        \* (hour + minute/60 + second/3600) / 24 of a day, counted in seconds
        fraction == date.hour * 3600 + date.minute * 60 + date.second
    IN  [jdn |-> jdn, secs |-> fraction]

\* the season with spring starting a day late (day > 20 for day >= 20)
get_season_late_spring(date) ==
    LET month == date.month
        day == date.day
    IN  IF (month = 3 /\ day > 20) \/ month \in {4, 5} \/ (month = 6 /\ day < 21)
        THEN "Spring"
        ELSE IF (month = 6 /\ day >= 21) \/ month \in {7, 8} \/ (month = 9 /\ day < 22)
        THEN "Summer"
        ELSE IF (month = 9 /\ day >= 22) \/ month \in {10, 11} \/ (month = 12 /\ day < 21)
        THEN "Autumn"
        ELSE "Winter"

\* the season with the summer test reading day <= 22 for day < 22
get_season_long_summer(date) ==
    LET month == date.month
        day == date.day
    IN  IF (month = 3 /\ day >= 20) \/ month \in {4, 5} \/ (month = 6 /\ day < 21)
        THEN "Spring"
        ELSE IF (month = 6 /\ day >= 21) \/ month \in {7, 8} \/ (month = 9 /\ day <= 22)
        THEN "Summer"
        ELSE IF (month = 9 /\ day >= 22) \/ month \in {10, 11} \/ (month = 12 /\ day < 21)
        THEN "Autumn"
        ELSE "Winter"

get_season(date) ==
    LET month == date.month
        day == date.day
    IN  IF (month = 3 /\ day >= 20) \/ month \in {4, 5} \/ (month = 6 /\ day < 21)
        THEN "Spring"
        ELSE IF (month = 6 /\ day >= 21) \/ month \in {7, 8} \/ (month = 9 /\ day < 22)
        THEN "Summer"
        ELSE IF (month = 9 /\ day >= 22) \/ month \in {10, 11} \/ (month = 12 /\ day < 21)
        THEN "Autumn"
        ELSE "Winter"

\* the values _get_current_astronomical_data formats into its text
get_current_astronomical_data(t) ==
    [at |-> t,
     julian_day |-> calculate_julian_day(t),
     tm_yday |-> tm_yday(t),
     season |-> get_season(t)]

-----------------------------------------------------------------------------
(* The lunar approximation: get_next_new_moon .. get_lunar_significance *)

\* lunar_cycle = 29.53 days, in hundredths of a day
LunarCycle100 == 2953

\* now.toordinal() % lunar_cycle in hundredths of a day.  The double 29.53 is
\* 29.53 + 1.1e-15, so the float remainder is the exact one less k * 1.1e-15
\* (k cycles): an exact remainder of 0 comes out as just below 29.53, which
\* fmod100 gives as 2953; every other remainder is off by less than 1e-10 day.
fmod100(n) ==
    LET r == (100 * n) % LunarCycle100
    IN  IF r = 0 /\ n > 0 THEN LunarCycle100 ELSE r

\* what the remainder's k * 1.1e-15 day comes to once timedelta(days=...) has
\* rounded the duration to whole microseconds (1.1368e-15 day = 9.823e-5 us)
DriftMicros(n) == (((100 * n) \div LunarCycle100) * 9823 + 50000000) \div 100000000

\* round(x, 1) of x = 100 * r100 / 2953 percent, in tenths of a percent
\* (2953 is odd, so no value lies half-way between two tenths)
RoundTenths(r100) == (2000 * r100 + LunarCycle100) \div (2 * LunarCycle100)

get_lunar_progress(t) == RoundTenths(fmod100(toordinal(t)))

get_lunar_significance(t) ==
    LET progress == get_lunar_progress(t)
    IN  IF progress < 250 THEN "New Moon Phase"
        ELSE IF progress < 500 THEN "Waxing Phase"
        ELSE IF progress < 750 THEN "Full Moon Phase"
        ELSE "Waning Phase"

\* (now + timedelta(days=d)).strftime('%Y-%m-%d') for a duration of dsecs whole
\* seconds plus the float drift
DateAfter(t, dsecs) ==
    LET n == toordinal(t)
        carry == (t.microsecond + DriftMicros(n)) \div 1000000
    IN  fromordinal(n + (SecondOfDay(t) + dsecs + carry) \div 86400)

\* days_to_new_moon = (lunar_cycle - (ordinal % lunar_cycle)) % lunar_cycle, in seconds
days_to_new_moon(t) == ((LunarCycle100 - fmod100(toordinal(t))) % LunarCycle100) * 864

\* the days to the full moon without the final % lunar_cycle
days_to_full_moon_no_wrap(t) ==
    ((5 * LunarCycle100 - 10 * fmod100(toordinal(t))) * 864) \div 10

\* days_to_full_moon = ((lunar_cycle/2) - (ordinal % lunar_cycle)) % lunar_cycle, in
\* seconds; lunar_cycle/2 = 14.765 days is 14765 thousandths of a day
days_to_full_moon(t) ==
    (((5 * LunarCycle100 - 10 * fmod100(toordinal(t))) % (10 * LunarCycle100)) * 864) \div 10

get_next_new_moon(t) == DateAfter(t, days_to_new_moon(t))

get_next_full_moon(t) == DateAfter(t, days_to_full_moon(t))

-----------------------------------------------------------------------------
(* Values of the variables an operation has not written yet *)

NoData == [op |-> "none"]
NoRet == [op |-> "none"]
NoUpdate == [handler |-> "none"]
NoScan == [changes |-> 0, changed_on |-> {}]

-----------------------------------------------------------------------------
(* The clock: the instants datetime.now() may return *)

DatesOf(years) ==
    { dt \in [year : years, month : 1..12, day : 1..31] :
        dt.day <= DaysInMonth(dt.year, dt.month) }

InstantsOf(years, times) ==
    { Instant(dt.year, dt.month, dt.day, times[j]) :
        dt \in DatesOf(years), j \in 1..Len(times) }

\* the instants of t's day and of the next day that are later than t
Later(t, years, times) ==
    LET nd == NextDay(t)
    IN  { u \in { Instant(t.year, t.month, t.day, times[j]) : j \in 1..Len(times) } :
            Earlier(t, u) }
        \cup { Instant(nd.year, nd.month, nd.day, times[j]) :
                 j \in { i \in 1..Len(times) : nd.year \in years } }

JulianYearSet == MinYear..(MinYear + JulianYears - 1)
LunarYearSet == MinYear..(MinYear + LunarYears - 1)
ScanYearSet == MinYear..(MinYear + ScanYears - 1)

\* whole-second and sub-second readings around midnight and noon
LunarTimes == << TimesOfDay[1], TimesOfDay[5], TimesOfDay[7] >>

-----------------------------------------------------------------------------
(* _get_current_astronomical_data: reads the clock, computes Julian day,    *)
(* day of year and season                                                  *)

AstronomicalData ==
    /\ \E t \in Later(now, JulianYearSet, TimesOfDay) :
          /\ now' = t
          /\ data' = [op |-> "_get_current_astronomical_data"]
                        @@ get_current_astronomical_data(t)
    /\ UNCHANGED <<ret, scan, env, pc, libraries_loaded, pending>>

InitJulian ==
    /\ now \in InstantsOf(JulianYearSet, TimesOfDay)
    /\ data = NoData
    /\ ret = NoRet
    /\ scan = NoScan
    /\ env = <<>>
    /\ pc = "ready"
    /\ libraries_loaded = <<>>
    /\ pending = NoUpdate

NextJulian == AstronomicalData

SpecJulian == InitJulian /\ [][NextJulian]_vars

-----------------------------------------------------------------------------
(* One call a day over a year, counting the days the season changed on *)

DailyData ==
    LET nd == NextDay(now)
        t == Midnight(nd.year, nd.month, nd.day)
        d == [op |-> "_get_current_astronomical_data"] @@ get_current_astronomical_data(t)
    IN  /\ nd.year = now.year
        /\ now' = t
        /\ data' = d
        /\ scan' = IF d.season # data.season
                   THEN [changes |-> scan.changes + 1,
                         changed_on |-> scan.changed_on \cup {<<t.month, t.day>>}]
                   ELSE scan
        /\ UNCHANGED <<ret, env, pc, libraries_loaded, pending>>

InitSeason ==
    /\ now \in { Midnight(y, 1, 1) : y \in ScanYearSet }
    /\ data = [op |-> "_get_current_astronomical_data"] @@ get_current_astronomical_data(now)
    /\ ret = NoRet
    /\ scan = NoScan
    /\ env = <<>>
    /\ pc = "ready"
    /\ libraries_loaded = <<>>
    /\ pending = NoUpdate

NextSeason == DailyData

SpecSeason == InitSeason /\ [][NextSeason]_vars

-----------------------------------------------------------------------------
(* The lunar operations: each reads the clock once *)

\* the clock stands still or moves on to its next reading
LunarReads ==
    LET later == Later(now, LunarYearSet, LunarTimes)
    IN  {now} \cup { u \in later : \A v \in later : ~Earlier(v, u) }

GetLunarProgress(reads) ==
    /\ \E t \in reads :
          /\ now' = t
          /\ ret' = [op |-> "get_lunar_progress", at |-> t, value |-> get_lunar_progress(t)]
    /\ UNCHANGED <<data, scan, env, pc, libraries_loaded, pending>>

GetLunarSignificance(reads) ==
    /\ \E t \in reads :
          /\ now' = t
          /\ ret' = [op |-> "get_lunar_significance", at |-> t,
                     value |-> get_lunar_significance(t)]
    /\ UNCHANGED <<data, scan, env, pc, libraries_loaded, pending>>

GetNextNewMoon(reads) ==
    /\ \E t \in reads :
          /\ now' = t
          /\ ret' = [op |-> "get_next_new_moon", at |-> t, value |-> get_next_new_moon(t)]
    /\ UNCHANGED <<data, scan, env, pc, libraries_loaded, pending>>

GetNextFullMoon(reads) ==
    /\ \E t \in reads :
          /\ now' = t
          /\ ret' = [op |-> "get_next_full_moon", at |-> t, value |-> get_next_full_moon(t)]
    /\ UNCHANGED <<data, scan, env, pc, libraries_loaded, pending>>

InitLunar ==
    /\ now \in InstantsOf(LunarYearSet, LunarTimes)
    /\ data = NoData
    /\ ret = NoRet
    /\ scan = NoScan
    /\ env = <<>>
    /\ pc = "ready"
    /\ libraries_loaded = <<>>
    /\ pending = NoUpdate

NextLunar ==
    \/ GetLunarProgress(LunarReads)
    \/ GetLunarSignificance(LunarReads)
    \/ GetNextNewMoon(LunarReads)
    \/ GetNextFullMoon(LunarReads)

SpecLunar == InitLunar /\ [][NextLunar]_vars

-----------------------------------------------------------------------------
(* AstroCalculator._check_libraries: the capability probe *)

\* the tracked libraries, in probe order
Tracked == << "flatlib", "lunardate", "ephem", "pytz", "dateutil" >>

TrackedSet == { Tracked[i] : i \in 1..Len(Tracked) }

\* what an import statement may do: bind a module that has or lacks
\* __version__, raise ImportError with or without a message, or raise another
\* exception out of the module's own code
ImportOutcomes ==
    { "module", "module_without_version", "ImportError", "ImportError_no_message",
      "OtherException" }

Description(lib_name) ==
    CASE lib_name = "flatlib" -> "Professional astrological calculations"
      [] lib_name = "lunardate" -> "Lunar calendar calculations"
      [] lib_name = "ephem" -> "ephem astronomical utilities"
      [] lib_name = "pytz" -> "pytz astronomical utilities"
      [] lib_name = "dateutil" -> "dateutil astronomical utilities"

\* one try/except ImportError block, for an import that does not raise past it
probe_record(lib_name, outcome) ==
    IF outcome \in {"module", "module_without_version"}
    THEN [status |-> "Available",
          version |-> IF outcome = "module" THEN "1.0" ELSE "Unknown",
          description |-> Description(lib_name)]
    ELSE [status |-> "Not Available",
          error |-> IF outcome = "ImportError" THEN "No module named" ELSE "",
          description |-> Description(lib_name)]

\* _check_libraries: an exception that is not an ImportError leaves the function
check_libraries(e) ==
    IF \E i \in 1..Len(Tracked) : e[Tracked[i]] = "OtherException"
    THEN [raised |-> TRUE, libraries |-> <<>>]
    ELSE [raised |-> FALSE,
          libraries |-> [lib_name \in TrackedSet |-> probe_record(lib_name, e[lib_name])]]

\* self.libraries_loaded.get(lib, {}).get('status') == 'Available'
IsAvailable(libraries, lib_name) ==
    lib_name \in DOMAIN libraries /\ libraries[lib_name].status = "Available"

-----------------------------------------------------------------------------
(* The operations that read the capability set *)

BaselineBullets ==
    << "Julian Day conversions", "Basic astronomical time calculations",
       "Seasonal determinations", "Date arithmetic and conversions",
       "Time zone handling (UTC base)" >>

FlatlibBullets ==
    << "Professional astrological calculations (flatlib)",
       "Planetary positions and aspects", "House calculations" >>

LunardateBullets ==
    << "Lunar calendar conversions", "Chinese lunar date calculations" >>

\* the capability list with both optional groups decided by the lunardate record
get_calculation_capabilities_one_flag(libraries) ==
    BaselineBullets
    \o (IF IsAvailable(libraries, "lunardate") THEN FlatlibBullets ELSE <<>>)
    \o (IF IsAvailable(libraries, "lunardate") THEN LunardateBullets ELSE <<>>)

get_calculation_capabilities(libraries) ==
    BaselineBullets
    \o (IF IsAvailable(libraries, "flatlib") THEN FlatlibBullets ELSE <<>>)
    \o (IF IsAvailable(libraries, "lunardate") THEN LunardateBullets ELSE <<>>)

\* the lines of libraries_status, one entry per record in insertion order
libraries_status(libraries) ==
    [i \in 1..Len(Tracked) |->
        LET lib_info == libraries[Tracked[i]]
        IN  IF lib_info.status = "Available"
            THEN [name |-> Tracked[i], status |-> lib_info.status,
                  detail |-> <<"Version", lib_info.version, lib_info.description>>]
            ELSE [name |-> Tracked[i], status |-> lib_info.status,
                  detail |-> <<"Error", lib_info.error>>]]

get_compatibility_summary(libraries, t) ==
    [libraries_status |-> libraries_status(libraries),
     current_data |-> get_current_astronomical_data(t),
     capabilities |-> get_calculation_capabilities(libraries)]

\* fails: lunardate's conversion raises inside the try block
get_lunar_information(libraries, fails) ==
    IF IsAvailable(libraries, "lunardate")
    THEN (IF fails THEN "Basic Lunar Information" ELSE "Current Lunar Date")
    ELSE "Basic Lunar Information"

get_basic_chart_info(libraries) ==
    IF IsAvailable(libraries, "flatlib")
    THEN "Professional Chart Calculations Available"
    ELSE "Basic Chart Information"

get_planetary_positions(libraries) ==
    IF IsAvailable(libraries, "flatlib")
    THEN "Professional planetary position calculations available via flatlib"
    ELSE "Basic astronomical time calculations available"

get_current_aspects(libraries) ==
    IF IsAvailable(libraries, "flatlib")
    THEN "Professional aspect calculations available via flatlib"
    ELSE "For detailed aspect calculations, flatlib library is required"

-----------------------------------------------------------------------------
(* Life of one AstroCalculator: construction, then any sequence of calls *)

\* AstroCalculator.__init__ (BotHandlers.__init__ constructs the one instance)
Construct ==
    /\ pc = "new"
    /\ LET r == check_libraries(env)
       IN  IF r.raised
           THEN pc' = "raised" /\ UNCHANGED libraries_loaded
           ELSE pc' = "ready" /\ libraries_loaded' = r.libraries
    /\ UNCHANGED <<now, data, ret, scan, env, pending>>

GetCompatibilitySummary ==
    /\ pc = "ready"
    /\ ret' = [op |-> "get_compatibility_summary", at |-> now,
               value |-> get_compatibility_summary(libraries_loaded, now)]
    /\ UNCHANGED <<now, data, scan, env, pc, libraries_loaded, pending>>

\* a failed lunardate computation that also rewrites the lunardate record
GetLunarInformationMarksFailure ==
    /\ pc = "ready"
    /\ \E fails \in BOOLEAN :
          /\ ret' = [op |-> "get_lunar_information", at |-> now, failed |-> fails,
                     value |-> get_lunar_information(libraries_loaded, fails)]
          /\ libraries_loaded' =
                IF fails /\ IsAvailable(libraries_loaded, "lunardate")
                THEN [libraries_loaded EXCEPT
                        !["lunardate"] = probe_record("lunardate", "ImportError")]
                ELSE libraries_loaded
    /\ UNCHANGED <<now, data, scan, env, pc, pending>>

GetLunarInformation ==
    /\ pc = "ready"
    /\ \E fails \in BOOLEAN :
          ret' = [op |-> "get_lunar_information", at |-> now, failed |-> fails,
                  value |-> get_lunar_information(libraries_loaded, fails)]
    /\ UNCHANGED <<now, data, scan, env, pc, libraries_loaded, pending>>

GetBasicChartInfo ==
    /\ pc = "ready"
    /\ ret' = [op |-> "get_basic_chart_info", at |-> now,
               value |-> get_basic_chart_info(libraries_loaded)]
    /\ UNCHANGED <<now, data, scan, env, pc, libraries_loaded, pending>>

GetPlanetaryPositions ==
    /\ pc = "ready"
    /\ ret' = [op |-> "get_planetary_positions", at |-> now,
               value |-> get_planetary_positions(libraries_loaded)]
    /\ UNCHANGED <<now, data, scan, env, pc, libraries_loaded, pending>>

GetCurrentAspects ==
    /\ pc = "ready"
    /\ ret' = [op |-> "get_current_aspects", at |-> now,
               value |-> get_current_aspects(libraries_loaded)]
    /\ UNCHANGED <<now, data, scan, env, pc, libraries_loaded, pending>>

Init ==
    /\ now = Instant(MinYear, 5, 19, TimesOfDay[5])
    /\ data = NoData
    /\ ret = NoRet
    /\ scan = NoScan
    /\ env \in [TrackedSet -> ImportOutcomes]
    /\ pc = "new"
    /\ libraries_loaded = <<>>
    /\ pending = NoUpdate

Next ==
    \/ Construct
    \/ GetCompatibilitySummary
    \/ GetLunarInformation
    \/ GetBasicChartInfo
    \/ GetPlanetaryPositions
    \/ GetCurrentAspects
    \/ pc = "ready" /\ GetLunarProgress({now})
    \/ pc = "ready" /\ GetLunarSignificance({now})
    \/ pc = "ready" /\ GetNextNewMoon({now})
    \/ pc = "ready" /\ GetNextFullMoon({now})

Spec == Init /\ [][Next]_vars

-----------------------------------------------------------------------------
(* Julian day claims (SpecJulian) *)

Called == data.op = "_get_current_astronomical_data"

JDLess(a, b) == a.jdn < b.jdn \/ (a.jdn = b.jdn /\ a.secs < b.secs)

SameSecond(t1, t2) == toordinal(t1) = toordinal(t2) /\ SecondOfDay(t1) = SecondOfDay(t2)

\* C1: the Julian day of 2000-01-01 12:00:00 is exactly 2451545.0
C1_EpochJulianDay ==
    (Called /\ data.at = Instant(2000, 1, 1, TimesOfDay[5]))
        => data.julian_day = [jdn |-> 2451545, secs |-> 0]

\* C4 as stated: whenever the instant advances by any positive duration the
\* Julian day strictly increases
C4_StrictlyIncreasing ==
    [][(Called /\ Earlier(data.at, data'.at))
          => JDLess(data.julian_day, data'.julian_day)]_vars

\* C4 as amended: as the instant advances the Julian day never decreases; it
\* strictly increases when the later instant lies in a later whole second, and
\* is unchanged when both instants lie in the same second
C4_IncreasingBySeconds ==
    [][(Called /\ Earlier(data.at, data'.at))
          => IF SameSecond(data.at, data'.at)
             THEN data'.julian_day = data.julian_day
             ELSE JDLess(data.julian_day, data'.julian_day)]_vars

\* the Julian day has been computed for the first instant after the leap day of
\* a year divisible by 400
C4_Witness ==
    /\ Called
    /\ data.at = Midnight(2000, 3, 1)
    /\ data.julian_day = [jdn |-> 2451605, secs |-> 0]

-----------------------------------------------------------------------------
(* Season claims *)

Seasons == {"Spring", "Summer", "Autumn", "Winter"}

\* the four predicates of the season rule, Winter being "otherwise"
SeasonPredicate(s, month, day) ==
    LET spring == (month = 3 /\ day >= 20) \/ month \in {4, 5} \/ (month = 6 /\ day < 21)
        summer == (month = 6 /\ day >= 21) \/ month \in {7, 8} \/ (month = 9 /\ day < 22)
        autumn == (month = 9 /\ day >= 22) \/ month \in {10, 11} \/ (month = 12 /\ day < 21)
    IN  CASE s = "Spring" -> spring
          [] s = "Summer" -> summer
          [] s = "Autumn" -> autumn
          [] s = "Winter" -> ~spring /\ ~summer /\ ~autumn

\* C7: for the (month, day) of every instant exactly one of the four season
\* predicates holds, and _get_season returns the season whose predicate holds
C7_ExactlyOneSeason ==
    Called =>
        /\ Cardinality({ s \in Seasons :
                           SeasonPredicate(s, data.at.month, data.at.day) }) = 1
        /\ data.season \in Seasons
        /\ SeasonPredicate(data.season, data.at.month, data.at.day)

\* the season of a Feb 29 has been computed
C7_Witness ==
    /\ Called
    /\ data.at.month = 2 /\ data.at.day = 29
    /\ data.season = "Winter"

BoundaryDays ==
    { <<3, 19, "Winter">>, <<3, 20, "Spring">>, <<6, 20, "Spring">>, <<6, 21, "Summer">>,
      <<9, 21, "Summer">>, <<9, 22, "Autumn">>, <<12, 20, "Autumn">>, <<12, 21, "Winter">> }

ChangeDays == { <<3, 20>>, <<6, 21>>, <<9, 22>>, <<12, 21>> }

\* C8: the season is Spring on Mar 20 and Jun 20, Summer on Jun 21 and Sep 21,
\* Autumn on Sep 22 and Dec 20, Winter on Dec 21 and Mar 19; over the days of a
\* year in calendar order it changes exactly four times, on Mar 20, Jun 21,
\* Sep 22 and Dec 21
C8_SeasonBoundaries ==
    /\ \A b \in BoundaryDays :
          (now.month = b[1] /\ now.day = b[2]) => data.season = b[3]
    /\ scan.changed_on \subseteq ChangeDays
    /\ scan.changes = Cardinality(scan.changed_on)
    /\ (now.month = 12 /\ now.day = 31) =>
          (scan.changes = 4 /\ scan.changed_on = ChangeDays)

\* a whole leap year has been scanned
C8_Witness ==
    /\ now.year = 2000 /\ now.month = 12 /\ now.day = 31
    /\ data.season = "Winter"
    /\ scan.changes = 4

-----------------------------------------------------------------------------
(* Lunar claims (SpecLunar) *)

\* C2: the value get_lunar_progress returns is at least 0 and below 100 percent
C2_ProgressBelow100 ==
    ret.op = "get_lunar_progress" => (0 <= ret.value /\ ret.value < 1000)

\* the label the thresholds give for the progress (ordinal % 29.53) / 29.53 * 100
\* itself: r/29.53*100 < 25 is 4 * r100 < 2953, and so on
PhaseOfProgress(t) ==
    LET r100 == fmod100(toordinal(t))
    IN  IF 4 * r100 < LunarCycle100 THEN "New Moon Phase"
        ELSE IF 2 * r100 < LunarCycle100 THEN "Waxing Phase"
        ELSE IF 4 * r100 < 3 * LunarCycle100 THEN "Full Moon Phase"
        ELSE "Waning Phase"

\* C3: the phase label reported for an instant is the one the thresholds 25, 50
\* and 75 select for progressPercent = ((ordinal mod 29.53) / 29.53) * 100
C3_PhaseOfProgress ==
    ret.op = "get_lunar_significance" => ret.value = PhaseOfProgress(ret.at)

\* C6: the next new moon date and the next full moon date are on or after the
\* date of the instant and at most 30 days after it
C6_MoonWithin30Days ==
    ret.op \in {"get_next_new_moon", "get_next_full_moon"} =>
        /\ toordinal(ret.at) <= toordinal(ret.value)
        /\ toordinal(ret.value) <= toordinal(ret.at) + 30

\* a next new moon exactly 30 days after the date of an afternoon instant
C6_Witness ==
    /\ ret.op = "get_next_new_moon"
    /\ SecondOfDay(ret.at) >= 43200
    /\ toordinal(ret.value) = toordinal(ret.at) + 30

-----------------------------------------------------------------------------
(* Capability claims (Spec) *)

Unresolvable == {"ImportError", "ImportError_no_message", "OtherException"}

\* C5: the probe never raises, however the imports fail; it leaves one record
\* per tracked name, and when every import fails each record is 'Not Available'
\* with a non-empty error message
C5_ProbeNeverRaises ==
    /\ pc # "raised"
    /\ pc = "ready" =>
          /\ DOMAIN libraries_loaded = TrackedSet
          /\ (\A lib_name \in TrackedSet : env[lib_name] \in Unresolvable) =>
                \A lib_name \in TrackedSet :
                    /\ libraries_loaded[lib_name].status = "Not Available"
                    /\ libraries_loaded[lib_name].error # ""

Bullets(text) == { text[i] : i \in 1..Len(text) }

\* C9: the capabilities text always has the baseline bullets; it has the
\* professional astrological calculations bullet exactly when the flatlib record
\* is available, and the lunar-calendar bullets exactly when the lunardate record
\* is available
C9_CapabilitiesText ==
    ret.op = "get_compatibility_summary" =>
        LET text == Bullets(ret.value.capabilities)
        IN  /\ { "Julian Day conversions", "Basic astronomical time calculations",
                 "Seasonal determinations", "Date arithmetic and conversions" }
                   \subseteq text
            /\ ("Professional astrological calculations (flatlib)" \in text)
                   <=> (libraries_loaded["flatlib"].status = "Available")
            /\ ({ "Lunar calendar conversions", "Chinese lunar date calculations" }
                   \subseteq text)
                   <=> (libraries_loaded["lunardate"].status = "Available")
            /\ ({ "Lunar calendar conversions", "Chinese lunar date calculations" }
                   \cap text = {})
                   <=> (libraries_loaded["lunardate"].status # "Available")

\* a summary made with flatlib available and lunardate missing
C9_Witness ==
    /\ ret.op = "get_compatibility_summary"
    /\ libraries_loaded["flatlib"].status = "Available"
    /\ libraries_loaded["lunardate"].status = "Not Available"
    /\ "Professional astrological calculations (flatlib)"
           \in Bullets(ret.value.capabilities)

\* C10: once the calculator is constructed no call changes its capability set,
\* and the probe is not run again
C10_CapabilitiesFrozen ==
    [][pc = "ready" => (libraries_loaded' = libraries_loaded /\ pc' = "ready")]_vars

\* get_lunar_information has fallen back after a failed lunardate computation
\* while the lunardate record says 'Available'
C10_Witness ==
    /\ pc = "ready"
    /\ ret.op = "get_lunar_information"
    /\ ret.failed
    /\ ret.value = "Basic Lunar Information"
    /\ libraries_loaded["lunardate"].status = "Available"

-----------------------------------------------------------------------------
(* BotHandlers.handle_lunar: five calculator calls, each reading the clock *)

\* the clock at one call: where the previous call left it, or its next reading
\* among the instants the clock runs over
ReadsAfter(t, instants) ==
    LET later == { u \in instants : Earlier(t, u) }
    IN  {t} \cup { u \in later : \A v \in later : ~Earlier(v, u) }

\* the readings of k successive calls, the clock being at t before the first;
\* with advance = FALSE the clock stands still over the calls
RECURSIVE ClockReadings(_, _, _, _)
ClockReadings(t, k, instants, advance) ==
    IF k = 0 THEN { <<>> }
    ELSE UNION { { <<u>> \o rest : rest \in ClockReadings(u, k - 1, instants, advance) } :
                   u \in (IF advance THEN ReadsAfter(t, instants) ELSE {t}) }

ErrorReply(handler) == [kind |-> "error", handler |-> handler]

\* what one reply_text does: it delivers the reply and returns, it raises
\* without delivering, or it raises after the reply was delivered (the request
\* went out, the answer was lost)
SendOutcomes == { "delivered", "raises", "delivered_raises" }

\* the outcomes of the first reply_text of a callback and, when that raised
\* inside a try block, of the one in the except branch
Sends ==
    { << "delivered", "delivered" >> } \cup
    { << first, second >> : first \in SendOutcomes \ {"delivered"}, second \in SendOutcomes }

\* on an update whose message is None (an edited message, a channel post)
\* update.message.reply_text raises AttributeError before anything is sent
SendsOf(update) == IF update.message THEN Sends ELSE { << "raises", "raises" >> }

\* await update.message.reply_text(...), the i-th of a callback
reply_text(update, sends, i) == IF update.message THEN sends[i] ELSE "raises"

\* what a reply_text with outcome o adds to the replies the user has
Sent(o, reply) == IF o = "raises" THEN <<>> ELSE << reply >>

\* try: <calculator calls>; reply_text(reply)
\* except Exception: reply_text(error text)
\* raises: a calculator call raises inside the try block.  raised: an exception
\* leaves the callback (the reply_text of the except branch raised)
try_reply(update, sends, raises, reply, handler) ==
    IF raises
    THEN LET o == reply_text(update, sends, 1)
         IN  [replies |-> Sent(o, ErrorReply(handler)), raised |-> o # "delivered"]
    ELSE LET o1 == reply_text(update, sends, 1)
             o2 == reply_text(update, sends, 2)
         IN  IF o1 = "delivered"
             THEN [replies |-> << reply >>, raised |-> FALSE]
             ELSE [replies |-> Sent(o1, reply) \o Sent(o2, ErrorReply(handler)),
                   raised |-> o2 # "delivered"]

\* the replies handle_lunar sends.  reads[1..4] are the clock readings of
\* get_next_new_moon, get_next_full_moon, get_lunar_progress and
\* get_lunar_significance, in the order the f-string evaluates them; raises: a
\* calculator call raises inside the try block, after the readings made so far
handle_lunar(update, sends, libraries, fails, raises, reads) ==
    try_reply(update, sends, raises,
              IF raises THEN ErrorReply("handle_lunar")
              ELSE [kind |-> "lunar",
                    lunar_info |-> get_lunar_information(libraries, fails),
                    next_new_moon |-> get_next_new_moon(reads[1]),
                    next_full_moon |-> get_next_full_moon(reads[2]),
                    progress |-> get_lunar_progress(reads[3]),
                    significance |-> get_lunar_significance(reads[4])],
              "handle_lunar")

ReplyYearSet == {MinYear}

\* the first ReplyDays days of the year, at the lunar times of day
ReplyInstants ==
    { t \in InstantsOf(ReplyYearSet, LunarTimes) : tm_yday(t) <= ReplyDays }

\* the updates the application hands to the callbacks registered for handlers:
\* a new message (update.message is set), or an edited message or channel post
\* (update.message is None, the message is update.effective_message only);
\* texts: the texts a text message may carry
Incoming(handlers, texts) ==
    { [handler |-> h, message |-> m, effective_message |-> TRUE, text |-> <<>>] :
        h \in handlers \ {"handle_message"}, m \in BOOLEAN } \cup
    { [handler |-> "handle_message", message |-> m, effective_message |-> TRUE, text |-> t] :
        m \in BOOLEAN, t \in (IF "handle_message" \in handlers THEN texts ELSE {}) }

\* the application takes the next update and hands it to its callback
Receive(handlers, texts) ==
    /\ pc = "ready"
    /\ pending = NoUpdate
    /\ pending' \in Incoming(handlers, texts)
    /\ ret' = NoRet
    /\ UNCHANGED <<now, data, scan, env, pc, libraries_loaded>>

\* a callback has ended: an exception that leaves it is handed, with the update,
\* to the error handler
Ended(raised) ==
    /\ pc' = IF raised THEN "error" ELSE "ready"
    /\ pending' = IF raised THEN pending ELSE NoUpdate

\* when one of the four calls raises, it and the calls before it have read the
\* clock; the clock is left at the last reading
HandleLunar(advance) ==
    /\ pc = "ready"
    /\ pending.handler = "handle_lunar"
    /\ \E sends \in SendsOf(pending), raises \in BOOLEAN :
          IF raises
          THEN \E k \in 1..4 :
               \E reads \in ClockReadings(now, k, ReplyInstants, advance) :
                  LET r == handle_lunar(pending, sends, libraries_loaded, FALSE, TRUE, reads)
                  IN  /\ now' = reads[k]
                      /\ ret' = [op |-> "handle_lunar", update |-> pending, sends |-> sends,
                                 reads |-> reads, replies |-> r.replies]
                      /\ Ended(r.raised)
          ELSE \E fails \in BOOLEAN :
               \E reads \in ClockReadings(now, 4, ReplyInstants, advance) :
                  LET r == handle_lunar(pending, sends, libraries_loaded, fails, FALSE, reads)
                  IN  /\ now' = reads[4]
                      /\ ret' = [op |-> "handle_lunar", update |-> pending, sends |-> sends,
                                 reads |-> reads, replies |-> r.replies]
                      /\ Ended(r.raised)
    /\ UNCHANGED <<data, scan, env, libraries_loaded>>

\* AstronomicalBot.error_handler, run with the update whose callback raised: it
\* replies through update.effective_message; an exception of its own reply_text
\* goes no further
ErrorHandler ==
    /\ pc = "error"
    /\ \E o \in SendOutcomes :
          ret' = IF pending.effective_message
                 THEN [ret EXCEPT !.replies = @ \o Sent(o, ErrorReply("error_handler"))]
                 ELSE ret
    /\ pc' = "ready"
    /\ pending' = NoUpdate
    /\ UNCHANGED <<now, data, scan, env, libraries_loaded>>

\* every library importable, or none
ReplyEnvs ==
    { [lib_name \in TrackedSet |-> "module"], [lib_name \in TrackedSet |-> "ImportError"] }

InitReply ==
    /\ now \in ReplyInstants
    /\ data = NoData
    /\ ret = NoRet
    /\ scan = NoScan
    /\ env \in ReplyEnvs
    /\ pc = "ready"
    /\ libraries_loaded = check_libraries(env).libraries
    /\ pending = NoUpdate

NextReply ==
    \/ Receive({"handle_lunar"}, {})
    \/ HandleLunar(TRUE)
    \/ ErrorHandler

SpecReply == InitReply /\ [][NextReply]_vars

-----------------------------------------------------------------------------
(* Lunar reply claim (SpecReply) *)

InstantAt(dt, sec, micro) ==
    [year |-> dt.year, month |-> dt.month, day |-> dt.day, hour |-> sec \div 3600,
     minute |-> (sec \div 60) % 60, second |-> sec % 60, microsecond |-> micro]

\* one instant for every stretch of dt's day over which the four lunar values
\* are constant: the two moon dates step where the time of day plus the days to
\* the moon reaches a whole day, and at the last microsecond of the day
InstantsOfDay(dt) ==
    LET t0 == InstantAt(dt, 0, 0)
    IN  { InstantAt(dt, 0, 0),
          InstantAt(dt, (86400 - (days_to_new_moon(t0) % 86400)) % 86400, 0),
          InstantAt(dt, (86400 - (days_to_full_moon(t0) % 86400)) % 86400, 0),
          InstantAt(dt, 86399, 999999) }

\* the four values are those of the instant t
SnapshotOf(reply, t) ==
    /\ reply.next_new_moon = get_next_new_moon(t)
    /\ reply.next_full_moon = get_next_full_moon(t)
    /\ reply.progress = get_lunar_progress(t)
    /\ reply.significance = get_lunar_significance(t)

LunarReplied ==
    /\ ret.op = "handle_lunar"
    /\ Len(ret.replies) = 1
    /\ ret.replies[1].kind = "lunar"

\* C11: the next new moon, next full moon, progress and phase label of one
\* /lunar reply are the values of one and the same instant of the day (or days)
\* the reply was built on, also when the clock advances during the invocation
C11_ReplyIsSnapshot ==
    LunarReplied =>
        \E i \in 1..4 : \E t \in InstantsOfDay(ret.reads[i]) :
            SnapshotOf(ret.replies[1], t)

-----------------------------------------------------------------------------
(* BotHandlers.handle_compatibility, handle_chart and handle_message *)

\* the words a text message is made of, as typed
Vocabulary ==
    { "Compatibility", "MATCH", "relationships", "Moon", "lunar", "emphases",
      "CHART", "Horoscope", "astrology", "astrological", "hello" }

\* str.lower() of a word
Lower(word) ==
    CASE word = "Compatibility" -> "compatibility"
      [] word = "MATCH" -> "match"
      [] word = "Moon" -> "moon"
      [] word = "CHART" -> "chart"
      [] word = "Horoscope" -> "horoscope"
      [] OTHER -> word

\* the keywords that are substrings of a word (the test is case-sensitive)
KeywordsIn(word) ==
    CASE word = "compatibility" -> {"compatibility"}
      [] word = "match" -> {"match"}
      [] word = "relationships" -> {"relationship"}
      [] word = "moon" -> {"moon"}
      [] word = "lunar" -> {"lunar"}
      [] word = "emphases" -> {"phase"}
      [] word = "chart" -> {"chart"}
      [] word = "horoscope" -> {"horoscope"}
      [] word = "astrology" -> {"astrology"}
      [] OTHER -> {}

\* update.message.text.lower()
lower(text) == [i \in 1..Len(text) |-> Lower(text[i])]

\* any(word in user_message for word in words)
any_word_in(user_message, words) ==
    \E i \in 1..Len(user_message) : KeywordsIn(user_message[i]) \cap words # {}

\* raises: get_compatibility_summary raises inside the try block
handle_compatibility(update, sends, libraries, raises, t) ==
    try_reply(update, sends, raises,
              IF raises THEN ErrorReply("handle_compatibility")
              ELSE [kind |-> "compatibility",
                    compatibility_info |-> get_compatibility_summary(libraries, t)],
              "handle_compatibility")

\* raises: a calculator call raises inside the try block
handle_chart(update, sends, libraries, raises) ==
    try_reply(update, sends, raises,
              IF raises THEN ErrorReply("handle_chart")
              ELSE [kind |-> "chart",
                    chart_info |-> get_basic_chart_info(libraries),
                    planetary_positions |-> get_planetary_positions(libraries),
                    aspects |-> get_current_aspects(libraries)],
              "handle_chart")

\* one reply_text outside any try block
plain_reply(update, sends, reply) ==
    LET o == reply_text(update, sends, 1)
    IN  [replies |-> Sent(o, reply), raised |-> o # "delivered"]

handle_start(update, sends) == plain_reply(update, sends, [kind |-> "welcome"])

handle_help(update, sends) == plain_reply(update, sends, [kind |-> "help"])

\* the result of handle_message awaiting one handler
Awaited(handler, r) ==
    [branch |-> handler, calls |-> << handler >>, replies |-> r.replies, raised |-> r.raised]

\* the branch handle_message runs, the handlers it awaits and the replies the
\* user receives; update.message.text raises AttributeError, before any branch,
\* when update.message is None
handle_message(update, sends, libraries, text, fails, raises, reads) ==
    IF ~update.message
    THEN [branch |-> "none", calls |-> <<>>, replies |-> <<>>, raised |-> TRUE]
    ELSE
    LET user_message == lower(text)
    IN  IF any_word_in(user_message, {"compatibility", "match", "relationship"})
        THEN Awaited("handle_compatibility",
                     handle_compatibility(update, sends, libraries, raises, reads[1]))
        ELSE IF any_word_in(user_message, {"moon", "lunar", "phase"})
        THEN Awaited("handle_lunar",
                     handle_lunar(update, sends, libraries, fails, raises, reads))
        ELSE IF any_word_in(user_message, {"chart", "horoscope", "astrology"})
        THEN Awaited("handle_chart", handle_chart(update, sends, libraries, raises))
        ELSE LET r == plain_reply(update, sends, [kind |-> "generic", time |-> reads[1]])
             IN  [branch |-> "generic", calls |-> <<>>, replies |-> r.replies,
                  raised |-> r.raised]

\* the text messages of at most MaxWords words
Messages == UNION { [1..n -> Vocabulary] : n \in 1..MaxWords }

HandleCompatibility ==
    /\ pc = "ready"
    /\ pending.handler = "handle_compatibility"
    /\ \E sends \in SendsOf(pending), raises \in BOOLEAN :
          LET r == handle_compatibility(pending, sends, libraries_loaded, raises, now)
          IN  /\ ret' = [op |-> "handle_compatibility", update |-> pending, sends |-> sends,
                         raises |-> raises, replies |-> r.replies]
              /\ Ended(r.raised)
    /\ UNCHANGED <<now, data, scan, env, libraries_loaded>>

HandleChart ==
    /\ pc = "ready"
    /\ pending.handler = "handle_chart"
    /\ \E sends \in SendsOf(pending), raises \in BOOLEAN :
          LET r == handle_chart(pending, sends, libraries_loaded, raises)
          IN  /\ ret' = [op |-> "handle_chart", update |-> pending, sends |-> sends,
                         raises |-> raises, replies |-> r.replies]
              /\ Ended(r.raised)
    /\ UNCHANGED <<now, data, scan, env, libraries_loaded>>

HandleStart ==
    /\ pc = "ready"
    /\ pending.handler = "handle_start"
    /\ \E sends \in SendsOf(pending) :
          LET r == handle_start(pending, sends)
          IN  /\ ret' = [op |-> "handle_start", update |-> pending, sends |-> sends,
                         replies |-> r.replies]
              /\ Ended(r.raised)
    /\ UNCHANGED <<now, data, scan, env, libraries_loaded>>

HandleHelp ==
    /\ pc = "ready"
    /\ pending.handler = "handle_help"
    /\ \E sends \in SendsOf(pending) :
          LET r == handle_help(pending, sends)
          IN  /\ ret' = [op |-> "handle_help", update |-> pending, sends |-> sends,
                         replies |-> r.replies]
              /\ Ended(r.raised)
    /\ UNCHANGED <<now, data, scan, env, libraries_loaded>>

HandleMessage ==
    /\ pc = "ready"
    /\ pending.handler = "handle_message"
    /\ \E sends \in SendsOf(pending), fails \in BOOLEAN, raises \in BOOLEAN :
       \E reads \in ClockReadings(now, 4, {now}, FALSE) :
          LET r == handle_message(pending, sends, libraries_loaded, pending.text,
                                  fails, raises, reads)
          IN  /\ ret' = [op |-> "handle_message", update |-> pending, sends |-> sends,
                         text |-> pending.text, raises |-> raises, branch |-> r.branch,
                         calls |-> r.calls, replies |-> r.replies]
              /\ Ended(r.raised)
    /\ UNCHANGED <<now, data, scan, env, libraries_loaded>>

\* the callbacks setup_handlers registers
Handlers ==
    { "handle_start", "handle_help", "handle_compatibility", "handle_lunar",
      "handle_chart", "handle_message" }

InitMessages ==
    /\ now = Instant(MinYear, 5, 19, TimesOfDay[5])
    /\ data = NoData
    /\ ret = NoRet
    /\ scan = NoScan
    /\ env \in ReplyEnvs
    /\ pc = "ready"
    /\ libraries_loaded = check_libraries(env).libraries
    /\ pending = NoUpdate

NextMessages ==
    \/ Receive(Handlers, Messages)
    \/ HandleStart
    \/ HandleHelp
    \/ HandleMessage
    \/ HandleCompatibility
    \/ HandleLunar(FALSE)
    \/ HandleChart
    \/ ErrorHandler

SpecMessages == InitMessages /\ [][NextMessages]_vars

-----------------------------------------------------------------------------
(* Dispatch claim (SpecMessages) *)

\* some word of the text, lower-cased, contains one of the keywords
Mentions(text, words) ==
    \E i \in 1..Len(text) : KeywordsIn(Lower(text[i])) \cap words # {}

\* the one branch a text is for: the first group, in the order compatibility,
\* lunar, chart, that the text mentions, else the generic reply
BranchFor(text) ==
    IF Mentions(text, {"compatibility", "match", "relationship"}) THEN "handle_compatibility"
    ELSE IF Mentions(text, {"moon", "lunar", "phase"}) THEN "handle_lunar"
    ELSE IF Mentions(text, {"chart", "horoscope", "astrology"}) THEN "handle_chart"
    ELSE "generic"

\* C12: handle_message runs exactly one branch for every text message it is
\* given, the first of compatibility, lunar, chart whose keywords the
\* lower-cased text contains, else the generic reply; when the calculator call
\* of the chosen handler raises, the user receives exactly one reply, an error
\* text
C12_DispatchPrecedence ==
    (ret.op = "handle_message" /\ pc = "ready") =>
        LET b == BranchFor(ret.text)
        IN  /\ ret.branch = b
            /\ ret.calls = (IF b = "generic" THEN <<>> ELSE << b >>)
            /\ (b # "generic" /\ ret.raises) =>
                  /\ Len(ret.replies) = 1
                  /\ ret.replies[1].kind = "error"

====
